---- MODULE Spec2Model ----
(***************************************************************************)
(* Model of startup.py, the login autostart manager for i3/Sway.           *)
(*                                                                         *)
(* The script is one sequential process.  pc is its position; every other  *)
(* variable is a variable of the script, except trace, which records in    *)
(* order everything the process does to the outside world: journal events, *)
(* subprocesses, calls on the window manager connection, sleeps and an     *)
(* uncaught exception.                                                     *)
(*                                                                         *)
(* Not modelled: argument parsing (config_path is opaque), the plain       *)
(* print() calls, and failures raised inside the i3ipc library             *)
(* (Connection(), command()).                                              *)
(***************************************************************************)
EXTENDS Integers, Sequences, FiniteSets, TLC

VARIABLES pc, now, vacation, workday, weekend, config_file, wants, pre_list,
          weekend_list, wm, idx, running, command, reply, trace

vars == <<pc, now, vacation, workday, weekend, config_file, wants, pre_list,
          weekend_list, wm, idx, running, command, reply, trace>>

(***************************************************************************)
(* Bounds of the model.                                                    *)
(***************************************************************************)
\* longest list under one key of the configuration file
MaxLen == 2
\* most commands in one configuration file, all keys together
MaxCmds == 4
\* the command lines a configuration file may hold
Cmds == {"a", "b"}

(***************************************************************************)
(* Values.                                                                 *)
(***************************************************************************)
Keys == {"pre", "common", "weekend", "work"}

\* datetime values, as far as WorkTime reads them
Times == [isoweekday : 1..7, hour : 0..23]
NoTime == [isoweekday |-> 0, hour |-> 0]

\* Python's range(a, b): b is not included
range(a, b) == a..(b - 1)

Lists == UNION {[1..n -> Cmds] : n \in 0..MaxLen}

EmptyMap == [k \in {} |-> <<>>]

LenAt(m, k) == IF k \in DOMAIN m THEN Len(m[k]) ELSE 0

TotalLen(m) == LenAt(m, "pre") + LenAt(m, "common") + LenAt(m, "weekend") + LenAt(m, "work")

\* the mappings the key autostarts may hold: any of the four keys may be absent
AutostartsMaps ==
    {m \in UNION {[S -> Lists] : S \in SUBSET Keys} : TotalLen(m) <= MaxCmds}

\* what yaml.load returns: None for an empty document, else a mapping
Unbound == [type |-> "unbound", value |-> EmptyMap]
None == [type |-> "NoneType", value |-> EmptyMap]
Dict(m) == [type |-> "dict", value |-> m]

Documents ==
    {None, Dict(EmptyMap)} \cup {Dict([autostarts |-> m]) : m \in AutostartsMaps}

NoKey == ""
NoCmd == ""

(***************************************************************************)
(* log_message                                                             *)
(***************************************************************************)
valid_levels == {"LOG_EMERG", "LOG_ALERT", "LOG_CRIT", "LOG_ERR",
                 "LOG_WARNING", "LOG_NOTICE", "LOG_INFO", "LOG_DEBUG"}

\* the events a call of log_message adds to the trace; a message is its
\* format text and the value formatted into it
log_message(message, level) ==
    IF level \notin valid_levels
    THEN <<[op |-> "raise", exc |-> "ValueError"]>>
    ELSE <<[op |-> "log", level |-> level, message |-> message]>>

Traceback(exc) == [op |-> "traceback", exc |-> exc]

(***************************************************************************)
(* WorkTime                                                                *)
(***************************************************************************)
is_weekend(self) ==
    IF self.isoweekday \notin range(1, 6) THEN TRUE ELSE FALSE

\* is_workday with the hour 16 taken as a work hour
is_workday_through16(self, isfile) ==
    IF isfile
    THEN FALSE
    ELSE IF ~is_weekend(self) /\ self.hour \in range(8, 17) THEN TRUE ELSE FALSE

\* isfile is the result of os.path.isfile("~/.vacation")
is_workday(self, isfile) ==
    IF isfile
    THEN FALSE
    ELSE IF ~is_weekend(self) /\ self.hour \in range(8, 16) THEN TRUE ELSE FALSE

(***************************************************************************)
(* The try block of __main__: what it extends the three lists by, and the  *)
(* key whose lookup raised KeyError (NoKey when none did).  A KeyError     *)
(* leaves the block, so the statements after the lookup are not run.       *)
(***************************************************************************)
Extended(w, p, e, k) == [wants |-> w, pre_list |-> p, weekend_list |-> e, key_err |-> k]

\* the try block with config work put in front of config common
TryBlockWorkFirst(cf, wd, we) ==
    IF "autostarts" \notin DOMAIN cf
    THEN Extended(<<>>, <<>>, <<>>, "autostarts")
    ELSE LET loaded_starts == cf["autostarts"] IN
    IF "common" \notin DOMAIN loaded_starts
    THEN Extended(<<>>, <<>>, <<>>, "common")
    ELSE LET w1 == loaded_starts["common"] IN
    IF "pre" \notin DOMAIN loaded_starts
    THEN Extended(w1, <<>>, <<>>, "pre")
    ELSE LET p1 == IF loaded_starts["pre"] # <<>> THEN loaded_starts["pre"] ELSE <<>> IN
    IF wd /\ "work" \notin DOMAIN loaded_starts
    THEN Extended(w1, p1, <<>>, "work")
    ELSE LET w2 == IF wd THEN loaded_starts["work"] \o w1 ELSE w1 IN
    IF we /\ "weekend" \notin DOMAIN loaded_starts
    THEN Extended(w2, p1, <<>>, "weekend")
    ELSE Extended(w2, p1, IF we THEN loaded_starts["weekend"] ELSE <<>>, NoKey)

\* the try block with common and work looked up before either extends wants
TryBlockWorkWithCommon(cf, wd, we) ==
    IF "autostarts" \notin DOMAIN cf
    THEN Extended(<<>>, <<>>, <<>>, "autostarts")
    ELSE LET loaded_starts == cf["autostarts"] IN
    IF "common" \notin DOMAIN loaded_starts
    THEN Extended(<<>>, <<>>, <<>>, "common")
    ELSE IF wd /\ "work" \notin DOMAIN loaded_starts
    THEN Extended(<<>>, <<>>, <<>>, "work")
    ELSE LET w2 == IF wd
                   THEN loaded_starts["common"] \o loaded_starts["work"]
                   ELSE loaded_starts["common"] IN
    IF "pre" \notin DOMAIN loaded_starts
    THEN Extended(w2, <<>>, <<>>, "pre")
    ELSE LET p1 == IF loaded_starts["pre"] # <<>> THEN loaded_starts["pre"] ELSE <<>> IN
    IF we /\ "weekend" \notin DOMAIN loaded_starts
    THEN Extended(w2, p1, <<>>, "weekend")
    ELSE Extended(w2, p1, IF we THEN loaded_starts["weekend"] ELSE <<>>, NoKey)

TryBlock(cf, wd, we) ==
    IF "autostarts" \notin DOMAIN cf
    THEN Extended(<<>>, <<>>, <<>>, "autostarts")
    ELSE LET loaded_starts == cf["autostarts"] IN
    IF "common" \notin DOMAIN loaded_starts
    THEN Extended(<<>>, <<>>, <<>>, "common")
    ELSE LET w1 == loaded_starts["common"] IN
    IF "pre" \notin DOMAIN loaded_starts
    THEN Extended(w1, <<>>, <<>>, "pre")
    ELSE LET p1 == IF loaded_starts["pre"] # <<>> THEN loaded_starts["pre"] ELSE <<>> IN
    IF wd /\ "work" \notin DOMAIN loaded_starts
    THEN Extended(w1, p1, <<>>, "work")
    ELSE LET w2 == IF wd THEN w1 \o loaded_starts["work"] ELSE w1 IN
    IF we /\ "weekend" \notin DOMAIN loaded_starts
    THEN Extended(w2, p1, <<>>, "weekend")
    ELSE Extended(w2, p1, IF we THEN loaded_starts["weekend"] ELSE <<>>, NoKey)

(***************************************************************************)
(* The run of the script.                                                  *)
(***************************************************************************)
Init ==
    /\ pc = "now"
    /\ now = NoTime
    /\ vacation = FALSE
    /\ workday = FALSE
    /\ weekend = FALSE
    /\ config_file = Unbound
    /\ wants = <<>>
    /\ pre_list = <<>>
    /\ weekend_list = <<>>
    /\ wm = "unbound"
    /\ idx = 1
    /\ running = NoCmd
    /\ command = ""
    /\ reply = <<>>
    /\ trace = <<>>

\* lines 130-133: the clock and ~/.vacation are read here
Classify ==
    /\ pc = "now"
    /\ \E t \in Times, isfile \in BOOLEAN :
          /\ workday' = is_workday(t, isfile)
          /\ weekend' = is_weekend(t)
    /\ pc' = "load"
    /\ UNCHANGED <<now, vacation, config_file, wants, pre_list, weekend_list,
                   wm, idx, running, command, reply, trace>>

\* a missing file reported as an error
ConfigMissingLogged ==
    /\ pc = "load"
    /\ trace' = trace \o log_message(<<"no config at {}", "config_path">>, "LOG_ERR")
    /\ pc' = "connect"
    /\ UNCHANGED <<now, vacation, workday, weekend, config_file, wants, pre_list,
                   weekend_list, wm, idx, running, command, reply>>

\* line 141, no file at config_path
ConfigMissing ==
    /\ pc = "load"
    /\ pc' = "connect"
    /\ UNCHANGED <<now, vacation, workday, weekend, config_file, wants, pre_list,
                   weekend_list, wm, idx, running, command, reply, trace>>

\* lines 141-160, a file at config_path holding the document doc
ConfigLoad ==
    /\ pc = "load"
    /\ \E doc \in Documents :
          /\ config_file' = doc
          /\ IF doc.type = "NoneType"
             THEN \* None["autostarts"] raises TypeError, which nothing catches
                  /\ trace' = Append(trace, Traceback("TypeError"))
                  /\ pc' = "crashed"
                  /\ UNCHANGED <<wants, pre_list, weekend_list>>
             ELSE LET r == TryBlock(doc.value, workday, weekend) IN
                  /\ wants' = wants \o r.wants
                  /\ pre_list' = pre_list \o r.pre_list
                  /\ weekend_list' = weekend_list \o r.weekend_list
                  /\ trace' = IF r.key_err # NoKey
                              THEN trace \o log_message(<<"Key not found in {config_path}: {}", r.key_err>>, "LOG_ERR")
                              ELSE trace
                  /\ pc' = "connect"
    /\ UNCHANGED <<now, vacation, workday, weekend, wm, idx, running, command, reply>>

\* line 163
Connect ==
    /\ pc = "connect"
    /\ wm' = "connected"
    /\ idx' = 1
    /\ pc' = "pre"
    /\ UNCHANGED <<now, vacation, workday, weekend, config_file, wants, pre_list,
                   weekend_list, running, command, reply, trace>>

Spawn(stage, cmd) == [op |-> "spawn", stage |-> stage, cmd |-> cmd]
Exit(stage, cmd, status) == [op |-> "exit", stage |-> stage, cmd |-> cmd, status |-> status]

\* lines 167-172: the info event, then subprocess.run starts the shell; a
\* spawn that fails raises OSError (or ValueError), which line 173 does not catch
PreStart ==
    /\ pc = "pre"
    /\ idx <= Len(pre_list)
    /\ LET pre_item == pre_list[idx]
           logged == trace \o log_message(<<"running (blocking) \"pre\" task: \"{}\"", pre_item>>, "LOG_INFO")
       IN \E spawned \in BOOLEAN :
             IF spawned
             THEN /\ running' = pre_item
                  /\ trace' = Append(logged, Spawn("pre", pre_item))
                  /\ pc' = "pre_wait"
             ELSE /\ running' = running
                  /\ trace' = Append(logged, Traceback("OSError"))
                  /\ pc' = "crashed"
    /\ UNCHANGED <<now, vacation, workday, weekend, config_file, wants, pre_list,
                   weekend_list, wm, idx, command, reply>>

\* line 172: the shell exits; check=False, so no exit status raises
PreWait ==
    /\ pc = "pre_wait"
    /\ \E status \in {"zero", "nonzero"} :
          trace' = Append(trace, Exit("pre", running, status))
    /\ running' = NoCmd
    /\ idx' = idx + 1
    /\ pc' = "pre"
    /\ UNCHANGED <<now, vacation, workday, weekend, config_file, wants, pre_list,
                   weekend_list, wm, command, reply>>

\* the pre loop ending with the test of line 176 made on workday
PreDoneTestsWorkday ==
    /\ pc = "pre"
    /\ idx > Len(pre_list)
    /\ idx' = 1
    /\ pc' = IF workday THEN "weekend" ELSE "general"
    /\ UNCHANGED <<now, vacation, workday, weekend, config_file, wants, pre_list,
                   weekend_list, wm, running, command, reply, trace>>

\* the pre loop ends; line 176
PreDone ==
    /\ pc = "pre"
    /\ idx > Len(pre_list)
    /\ idx' = 1
    /\ pc' = IF weekend THEN "weekend" ELSE "general"
    /\ UNCHANGED <<now, vacation, workday, weekend, config_file, wants, pre_list,
                   weekend_list, wm, running, command, reply, trace>>

\* lines 177-183: the info event, then subprocess.check_output starts the shell
WeekendStart ==
    /\ pc = "weekend"
    /\ idx <= Len(weekend_list)
    /\ LET weekend_item == weekend_list[idx]
           logged == trace \o log_message(<<"running (blocking) \"weekend\" task: \"{}\"", weekend_item>>, "LOG_INFO")
       IN \E spawned \in BOOLEAN :
             IF spawned
             THEN /\ running' = weekend_item
                  /\ trace' = Append(logged, Spawn("weekend", weekend_item))
                  /\ pc' = "weekend_wait"
             ELSE /\ running' = running
                  /\ trace' = Append(logged, Traceback("OSError"))
                  /\ pc' = "crashed"
    /\ UNCHANGED <<now, vacation, workday, weekend, config_file, wants, pre_list,
                   weekend_list, wm, idx, command, reply>>

\* lines 183-188: the shell exits; check_output raises CalledProcessError on a
\* non-zero status and the handler logs it
WeekendWait ==
    /\ pc = "weekend_wait"
    /\ \E status \in {"zero", "nonzero"} :
          trace' = Append(trace, Exit("weekend", running, status))
                   \o (IF status = "nonzero"
                       THEN log_message(<<"Exception during \"{}\": {output}", running>>, "LOG_ERR")
                       ELSE <<>>)
    /\ running' = NoCmd
    /\ idx' = idx + 1
    /\ pc' = "weekend"
    /\ UNCHANGED <<now, vacation, workday, weekend, config_file, wants, pre_list,
                   weekend_list, wm, command, reply>>

\* the weekend loop ends
WeekendDone ==
    /\ pc = "weekend"
    /\ idx > Len(weekend_list)
    /\ idx' = 1
    /\ pc' = "general"
    /\ UNCHANGED <<now, vacation, workday, weekend, config_file, wants, pre_list,
                   weekend_list, wm, running, command, reply, trace>>

\* lines 191-194: the directive is built, logged and sent; the reply carries
\* the window manager's error flag
Send ==
    /\ pc = "general"
    /\ idx <= Len(wants)
    /\ LET wanteditem == wants[idx] IN
          /\ command' = "exec " \o wanteditem
          /\ trace' = (trace \o log_message(<<"sending to WM: \"{}\"", command'>>, "LOG_INFO"))
                      \o <<[op |-> "command", payload |-> command']>>
    /\ \E error \in BOOLEAN : reply' = <<[error |-> error]>>
    /\ pc' = "sleep"
    /\ UNCHANGED <<now, vacation, workday, weekend, config_file, wants, pre_list,
                   weekend_list, wm, idx, running>>

\* line 195
Sleep ==
    /\ pc = "sleep"
    /\ trace' = Append(trace, [op |-> "sleep", ms |-> 100])
    /\ pc' = "inspect"
    /\ UNCHANGED <<now, vacation, workday, weekend, config_file, wants, pre_list,
                   weekend_list, wm, idx, running, command, reply>>

\* the inspection leaving the loop on a reply with the error flag set
InspectBreaksOnError ==
    /\ pc = "inspect"
    /\ trace' = IF reply[1].error
                THEN trace \o log_message(<<"autostart \"{}\" failed, couldn't reach WM", command>>, "LOG_ERR")
                ELSE trace
    /\ idx' = IF reply[1].error THEN Len(wants) + 1 ELSE idx + 1
    /\ pc' = "general"
    /\ UNCHANGED <<now, vacation, workday, weekend, config_file, wants, pre_list,
                   weekend_list, wm, running, command, reply>>

\* lines 196-201
Inspect ==
    /\ pc = "inspect"
    /\ trace' = IF reply[1].error
                THEN trace \o log_message(<<"autostart \"{}\" failed, couldn't reach WM", command>>, "LOG_ERR")
                ELSE trace
    /\ idx' = idx + 1
    /\ pc' = "general"
    /\ UNCHANGED <<now, vacation, workday, weekend, config_file, wants, pre_list,
                   weekend_list, wm, running, command, reply>>

\* the general loop ends; line 203
MainQuit ==
    /\ pc = "general"
    /\ idx > Len(wants)
    /\ trace' = Append(trace, [op |-> "main_quit"])
    /\ wm' = "quit"
    /\ pc' = "done"
    /\ UNCHANGED <<now, vacation, workday, weekend, config_file, wants, pre_list,
                   weekend_list, idx, running, command, reply>>

Next ==
    \/ Classify
    \/ ConfigMissing
    \/ ConfigLoad
    \/ Connect
    \/ PreStart
    \/ PreWait
    \/ PreDone
    \/ WeekendStart
    \/ WeekendWait
    \/ WeekendDone
    \/ Send
    \/ Sleep
    \/ Inspect
    \/ MainQuit

Spec == Init /\ [][Next]_vars

(***************************************************************************)
(* The classifier alone: the time and the vacation marker are given, and   *)
(* lines 132-133 are applied to them.                                      *)
(***************************************************************************)
InitClassify ==
    /\ pc = "now"
    /\ now \in Times
    /\ vacation \in BOOLEAN
    /\ workday = FALSE
    /\ weekend = FALSE
    /\ config_file = Unbound
    /\ wants = <<>>
    /\ pre_list = <<>>
    /\ weekend_list = <<>>
    /\ wm = "unbound"
    /\ idx = 1
    /\ running = NoCmd
    /\ command = ""
    /\ reply = <<>>
    /\ trace = <<>>

ClassifyNow ==
    /\ pc = "now"
    /\ workday' = is_workday(now, vacation)
    /\ weekend' = is_weekend(now)
    /\ pc' = "load"
    /\ UNCHANGED <<now, vacation, config_file, wants, pre_list, weekend_list,
                   wm, idx, running, command, reply, trace>>

NextClassify == ClassifyNow

SpecClassify == InitClassify /\ [][NextClassify]_vars

(***************************************************************************)
(* What the trace shows.                                                   *)
(***************************************************************************)
IsError(e) == e.op = "log" /\ e.level = "LOG_ERR"
IsSpawn(e) == e.op = "spawn"
IsExit(e) == e.op = "exit"
IsCommand(e) == e.op = "command"
IsLocal(e) == e.op \in {"spawn", "exit"}
IsPreExit(e) == e.op = "exit" /\ e.stage = "pre"
IsWeekendExit(e) == e.op = "exit" /\ e.stage = "weekend"
IsPreSpawn(e) == e.op = "spawn" /\ e.stage = "pre"
IsWeekendSpawn(e) == e.op = "spawn" /\ e.stage = "weekend"
IsChannelCall(e) == e.op \in {"command", "main_quit"}

CmdsOf(events) == [k \in 1..Len(events) |-> events[k].cmd]
PayloadsOf(events) == [k \in 1..Len(events) |-> events[k].payload]

Before(j) == SubSeq(trace, 1, j - 1)

IsPrefix(s, t) == Len(s) <= Len(t) /\ s = SubSeq(t, 1, Len(s))

\* the directives the general stage is to send for the list g
Directives(g) == [k \in 1..Len(g) |-> "exec " \o g[k]]

Loaded == pc \notin {"now", "load"}
HasAutostarts == config_file.type = "dict" /\ "autostarts" \in DOMAIN config_file.value
Autostarts == config_file.value["autostarts"]

KeyErrors(key) ==
    SelectSeq(trace, LAMBDA e : IsError(e) /\ e.message[2] = key)

AllFour ==
    /\ HasAutostarts
    /\ DOMAIN Autostarts = Keys
    /\ \A k \in Keys : Autostarts[k] # <<>>

PreAbsentIsNoError ==
    (Loaded /\ HasAutostarts /\ DOMAIN Autostarts = Keys \ {"pre"}) =>
        /\ pre_list = <<>>
        /\ SelectSeq(trace, IsError) = <<>>
        /\ wants = IF workday
                   THEN Autostarts["common"] \o Autostarts["work"]
                   ELSE Autostarts["common"]
        /\ weekend_list = IF weekend THEN Autostarts["weekend"] ELSE <<>>

\* C5: with no common key but pre and work present, one error event naming
\* common is logged, the pre list still is config pre and on a workday the
\* general list still receives config work.
MissingCommonKeepsOthers ==
    (Loaded /\ HasAutostarts /\ {"pre", "work"} \subseteq DOMAIN Autostarts
            /\ "common" \notin DOMAIN Autostarts) =>
        /\ Len(KeyErrors("common")) = 1
        /\ pre_list = Autostarts["pre"]
        /\ workday => wants = Autostarts["work"]

NoWorkOnWorkday ==
    /\ Loaded
    /\ HasAutostarts
    /\ {"pre", "common"} \subseteq DOMAIN Autostarts
    /\ "work" \notin DOMAIN Autostarts
    /\ workday

\* C6: with pre and common but no work key, on a workday, selection logs an
\* error event naming work and does not crash, the lists are pre = config
\* pre and general = config common, and the pre stage and the general stage
\* run exactly those lists.
MissingWorkKeepsPreAndCommon ==
    NoWorkOnWorkday =>
        /\ Len(KeyErrors("work")) = 1
        /\ SelectSeq(trace, IsError)[1].message[2] = "work"
        /\ \A j \in 1..Len(trace) : trace[j] # Traceback("TypeError")
        /\ pre_list = Autostarts["pre"]
        /\ wants = Autostarts["common"]
        /\ weekend_list = <<>>
        /\ IsPrefix(CmdsOf(SelectSeq(trace, IsPreSpawn)), Autostarts["pre"])
        /\ IsPrefix(PayloadsOf(SelectSeq(trace, IsCommand)), Directives(Autostarts["common"]))
        /\ pc = "done" =>
              /\ CmdsOf(SelectSeq(trace, IsPreExit)) = Autostarts["pre"]
              /\ PayloadsOf(SelectSeq(trace, IsCommand)) = Directives(Autostarts["common"])

MissingWorkWitness ==
    /\ NoWorkOnWorkday
    /\ pc = "done"
    /\ Autostarts["pre"] = <<"a", "b">>
    /\ Autostarts["common"] = <<"b", "a">>

\* C7: no error aborts the run: the process never stops before the quit call.
NoErrorAbortsTheRun ==
    pc # "crashed"

\* C8: every pre or weekend command that exits with a non-zero status is
\* followed by an error event holding the command's text, and the rest of
\* the stage's commands still run.
NonZeroExitIsLogged ==
    /\ \A j \in 1..Len(trace) :
          (IsExit(trace[j]) /\ trace[j].status = "nonzero") =>
              /\ j < Len(trace)
              /\ IsError(trace[j + 1])
              /\ trace[j + 1].message[2] = trace[j].cmd
    /\ pc = "done" =>
          /\ CmdsOf(SelectSeq(trace, IsPreSpawn)) = pre_list
          /\ CmdsOf(SelectSeq(trace, IsWeekendSpawn)) = weekend_list

WmError(c) ==
    [op |-> "log", level |-> "LOG_ERR",
     message |-> <<"autostart \"{}\" failed, couldn't reach WM", c>>]

\* C9: the directives sent are "exec " + g[1], "exec " + g[2], ... in list
\* order, one send per command; every send is followed by the pacing delay
\* before its reply is inspected and before the next send; a reply with the
\* error flag set gives one error event for that directive and the remaining
\* commands are still sent.
GeneralDispatch ==
    /\ IsPrefix(PayloadsOf(SelectSeq(trace, IsCommand)), Directives(wants))
    /\ pc = "done" => PayloadsOf(SelectSeq(trace, IsCommand)) = Directives(wants)
    /\ \A j \in 1..Len(trace) :
          IsCommand(trace[j]) =>
              IF j = Len(trace) THEN pc = "sleep" ELSE trace[j + 1].op = "sleep"
    /\ \A j \in 1..Len(trace) :
          trace[j].op = "sleep" =>
              IsCommand(trace[j - 1])
    /\ pc = "inspect" => trace[Len(trace)].op = "sleep"
    /\ (pc = "general" /\ idx > 1) =>
          IF reply[1].error
          THEN /\ trace[Len(trace)] = WmError("exec " \o wants[idx - 1])
               /\ trace[Len(trace) - 1].op = "sleep"
          ELSE trace[Len(trace)].op = "sleep"

GeneralDispatchWitness ==
    /\ pc = "done"
    /\ wants = <<"b", "a">>
    /\ PayloadsOf(SelectSeq(trace, IsCommand)) = <<"exec b", "exec a">>
    /\ \E j \in 1..Len(trace) :
          /\ trace[j] = WmError("exec b")
          /\ \E k \in (j + 1)..Len(trace) :
                IsCommand(trace[k]) /\ trace[k].payload = "exec a"

\* C10: with no file at the configuration path all three lists are empty,
\* no local command is run, no directive is sent, no error event is logged
\* and the only call on the compositor channel is the final quit.
MissingFileOnlyQuits ==
    (Loaded /\ config_file = Unbound) =>
        /\ wants = <<>> /\ pre_list = <<>> /\ weekend_list = <<>>
        /\ SelectSeq(trace, IsLocal) = <<>>
        /\ SelectSeq(trace, IsCommand) = <<>>
        /\ SelectSeq(trace, IsError) = <<>>
        /\ pc # "crashed"
        /\ pc = "done" => SelectSeq(trace, IsChannelCall) = <<[op |-> "main_quit"]>>

MissingFileWitness ==
    /\ pc = "done"
    /\ config_file = Unbound
    /\ trace = <<[op |-> "main_quit"]>>

====
